---- MODULE Spec2Model ----
(***************************************************************************)
(* Model of telegram-lybohora-bot: the outage-schedule parser and status   *)
(* engine of src/utils.ts and the polling / subscription layer of the bot. *)
(* One specification per unit: SpecParse (parseTimeRanges), SpecStatus     *)
(* (getElectricityStatus), SpecContent (buildScheduleContent), SpecMessage *)
(* (buildScheduleMessage, buildStatusMessage), SpecGroup                   *)
(* (parseGroupFromApi, fetchGroupFromApi), SpecBot (the polls of the       *)
(* running bot) and SpecNotify (the running bot with the group check and   *)
(* the record of who was sent what).                                       *)
(*                                                                         *)
(* Instants are seconds counted from 00:00 of a fixed day 0; every day has *)
(* 24 hours (no daylight-saving change on the modelled days).              *)
(*                                                                         *)
(* A group text "Група g. [Електроенергія є ...] Електроенергії немає      *)
(* з HH:MM до HH:MM, з HH:MM до HH:MM." is a record:                       *)
(*   present : FALSE for null (no paragraph found), TRUE otherwise         *)
(*   marker  : the text contains the phrase "Електроенергія є"             *)
(*   nemae   : the item list is introduced by the word "немає"             *)
(*   items   : the comma separated items, each either                      *)
(*             [kind |-> "range", s, e]  "з HH:MM до HH:MM",               *)
(*             [kind |-> "half", s]      "з HH:MM до" and words, or        *)
(*             [kind |-> "junk"]         words without any clock time      *)
(* A clock token HH:MM is [h |-> HH, m |-> MM], two digits each.           *)
(***************************************************************************)
EXTENDS Integers, Sequences, FiniteSets, TLC

VARIABLES
    phase,              \* position of the pure-function runs: "input" / "done"
    todayGroupText,     \* argument todayGroupText / groupText
    tomorrowGroupText,  \* argument tomorrowGroupText
    now,                \* argument now (an instant of day 0)
    pushed,             \* parseTimeRanges: the array ranges before the sort
    ranges,             \* parseTimeRanges: the array returned
    status,             \* result of getElectricityStatus
    GROUP,              \* the bot's current group, a string of characters
    lastState,          \* the bot's lastState: Null or the last content
    subscribers,        \* the bot's Set of chat ids, in insertion order
    stored,             \* storage: cachedData, as written to data.json
    pcSend,             \* checkAndSend: "idle", or "sending" in its for loop
    cursor,             \* checkAndSend: entries of subscribers iterated over
    sendMsg,            \* checkAndSend: fullMessage of the running broadcast
    outbox,             \* chats the latest poll has called sendMessage for
    polls,              \* what the latest polls computed, newest first
    otherToday,         \* buildScheduleContent: todayGroupText of a second call
    otherTomorrow,      \* buildScheduleContent: tomorrowGroupText of that call
    content,            \* buildScheduleContent: the string returned
    otherContent,       \* buildScheduleContent: the string the second call returned
    todayDoc,           \* parseSite: the document today, a sequence of paragraphs
    tomorrowDoc,        \* parseSite: the document tomorrow
    infoFound,          \* buildScheduleMessage: the local infoText
    reply,              \* what buildScheduleMessage / buildStatusMessage returned
    chergGpv,           \* the chergGpv of the account in the power API's answer
    parsedGroup,        \* result of parseGroupFromApi
    fetched,            \* result of fetchGroupFromApi
    pcGroup,            \* checkAndUpdateGroup: "idle", "building", "notifying"
    cursorGroup,        \* checkAndUpdateGroup: entries of subscribers iterated over
    groupMsg,           \* checkAndUpdateGroup: the notification being sent
    note,               \* the latest group change and whom it was sent to
    attempts,           \* sendMessage calls per chat in the running broadcast
    joined,             \* chats added to subscribers during that broadcast
    lastReq             \* per chat, what last decided its membership

contentVars == <<otherToday, otherTomorrow, content, otherContent>>
messageVars == <<todayDoc, tomorrowDoc, infoFound, reply>>
groupVars == <<chergGpv, parsedGroup, fetched>>
pureVars == <<phase, todayGroupText, tomorrowGroupText, now, pushed, ranges,
              status, otherToday, otherTomorrow, content, otherContent,
              todayDoc, tomorrowDoc, infoFound, reply, chergGpv, parsedGroup,
              fetched>>
notifyVars == <<pcGroup, cursorGroup, groupMsg, note, attempts, joined, lastReq>>
botVars == <<GROUP, lastState, subscribers, stored, pcSend, cursor, sendMsg,
             outbox, polls, pcGroup, cursorGroup, groupMsg, note, attempts,
             joined, lastReq>>
vars == <<phase, todayGroupText, tomorrowGroupText, now, pushed, ranges,
          status, GROUP, lastState, subscribers, stored, pcSend, cursor,
          sendMsg, outbox, polls, otherToday, otherTomorrow, content,
          otherContent, todayDoc, tomorrowDoc, infoFound, reply, chergGpv,
          parsedGroup, fetched, pcGroup, cursorGroup, groupMsg, note,
          attempts, joined, lastReq>>

\* --------------------------------------------------------------------------
\* Bounds
\* --------------------------------------------------------------------------
MaxParse == 2       \* items of a text handed to parseTimeRanges alone
MaxToday == 2       \* items of today's text in a status evaluation
MaxTomorrow == 1    \* items of tomorrow's text in a status evaluation
MaxChats == 2       \* chats that talk to the bot
MaxLabels == 1      \* items of a text handed to buildScheduleContent
MaxParagraphs == 2  \* paragraphs of today's document
MaxGpv == 3         \* characters of a chergGpv

\* --------------------------------------------------------------------------
\* Values
\* --------------------------------------------------------------------------
Null == <<>>
Some(v) == <<v>>

HOUR == 60 * 60
DAY == 24 * HOUR

Clock(h, m) == [h |-> h, m |-> m]
RangeItem(s, e) == [kind |-> "range", s |-> s, e |-> e]
HalfItem(s) == [kind |-> "half", s |-> s]
JunkItem == [kind |-> "junk"]

NoText == [present |-> FALSE]
Text(marker, nemae, items) ==
    [present |-> TRUE, marker |-> marker, nemae |-> nemae, items |-> items]

SeqsUpTo(S, n) == UNION {[1..k -> S] : k \in 0..n}

\* --------------------------------------------------------------------------
\* dayjs helpers
\* --------------------------------------------------------------------------
\* base.hour(h).minute(m).second(0).millisecond(0): the setters of the
\* underlying Date carry overflowing hours and minutes into the next units.
\* now.startOf('day')
StartOfDay(t) == t - (t % DAY)

\* base.hour(h).minute(m).second(0).millisecond(0): the setters replace the
\* fields of base, and the underlying Date carries overflowing hours and
\* minutes into the next units.
AtClock(base, c) == StartOfDay(base) + c.h * HOUR + c.m * 60

\* base.add(1, 'day').hour(0).minute(0).second(0).millisecond(0)
NextMidnight(base) == StartOfDay(base) + DAY

\* d.hour(), d.minute(), d.date() (the day is counted, not the day of month)
HourOf(t) == (t % DAY) \div HOUR
MinuteOf(t) == (t % HOUR) \div 60
DateOf(t) == t \div DAY

DiffMinutesReversed(a, b) ==
    IF b >= a THEN (b - a) \div 60 ELSE -((a - b) \div 60)

DiffMinutesRounded(a, b) ==
    IF a >= b THEN (a - b + 30) \div 60 ELSE -((b - a + 30) \div 60)

\* a.diff(b, 'minute'): whole minutes, truncated toward zero
DiffMinutes(a, b) == IF a >= b THEN (a - b) \div 60 ELSE -((b - a) \div 60)

IsBetweenClosed(t, s, e) == s <= t /\ t <= e

\* now.isBetween(s, e, null, '[)')
IsBetween(t, s, e) == s <= t /\ t < e

\* --------------------------------------------------------------------------
\* parseTimeRanges
\* --------------------------------------------------------------------------
\* The matches of /з (\d{2}:\d{2}) до (\d{2}:\d{2})/g, left to right.
Matches(text) == SelectSeq(text.items, LAMBDA it : it.kind = "range")

NoWrapRange(base, it) ==
    LET start == AtClock(base, it.s)
        end0 == AtClock(base, it.e)
        end1 == IF it.e = Clock(24, 0) THEN NextMidnight(base) ELSE end0
    IN  [start |-> start, end |-> end1]

EagerWrapRange(base, it) ==
    LET start == AtClock(base, it.s)
        end0 == AtClock(base, it.e)
        end1 == IF it.e = Clock(24, 0) THEN NextMidnight(base) ELSE end0
        end2 == IF end1 <= start THEN end1 + DAY ELSE end1
    IN  [start |-> start, end |-> end2]

\* One iteration of the while loop: start, end, the 24:00 case and the
\* wraparound.
MatchRange(base, it) ==
    LET start == AtClock(base, it.s)
        end0 == AtClock(base, it.e)
        end1 == IF it.e = Clock(24, 0) THEN NextMidnight(base) ELSE end0
        end2 == IF end1 < start THEN end1 + DAY ELSE end1
    IN  [start |-> start, end |-> end2]

\* Array.prototype.sort with (a, b) => a.start - b.start is a stable sort;
\* it is computed here by insertion after the elements that do not start
\* later.
RECURSIVE InsertByStart(_, _)
InsertByStart(r, sorted) ==
    IF sorted = <<>> THEN <<r>>
    ELSE IF r.start < Head(sorted).start THEN <<r>> \o sorted
    ELSE <<Head(sorted)>> \o InsertByStart(r, Tail(sorted))

RECURSIVE SortPrefix(_, _)
SortPrefix(rs, k) ==
    IF k = 0 THEN <<>> ELSE InsertByStart(rs[k], SortPrefix(rs, k - 1))

Unsorted(rs) == rs

SortByStart(rs) == SortPrefix(rs, Len(rs))

\* The array built by the while loop, in match order.
PushedRanges(groupText, base) ==
    LET ms == Matches(groupText)
    IN  [i \in 1..Len(ms) |-> MatchRange(base, ms[i])]

parseTimeRanges(groupText, base) == SortByStart(PushedRanges(groupText, base))

\* --------------------------------------------------------------------------
\* getFirstOutageTime: groupText.match(/з (\d{2}:\d{2}) до/)
\* --------------------------------------------------------------------------
getFirstParsedOutageTime(groupText) ==
    LET ms == Matches(groupText)
    IN  IF ms = <<>> THEN Null ELSE Some(ms[1].s)

getFirstOutageTime(groupText) ==
    LET ms == SelectSeq(groupText.items,
                        LAMBDA it : it.kind = "range" \/ it.kind = "half")
    IN  IF ms = <<>> THEN Null ELSE Some(ms[1].s)

\* --------------------------------------------------------------------------
\* getElectricityStatus
\* --------------------------------------------------------------------------
\* Variants of the branches of the walk, each with one condition or one
\* operand changed.
InOutageNoContinuation(todayRanges, tomorrowRanges, i, t) ==
    [isOn |-> FALSE,
     minutesUntilChange |-> Some(DiffMinutes(todayRanges[i].end, t)),
     isTomorrow |-> FALSE]

InOutageNoStartCheck(todayRanges, tomorrowRanges, i, t) ==
    LET r == todayRanges[i]
        isLastOutageOfDay == (i = Len(todayRanges))
        extendsToMidnight == HourOf(r.end) = 0 /\ DateOf(r.end) # DateOf(t)
    IN  IF isLastOutageOfDay /\ extendsToMidnight /\ Len(tomorrowRanges) > 0
        THEN [isOn |-> FALSE,
              minutesUntilChange |->
                  Some(DiffMinutes(tomorrowRanges[1].end, t)),
              isTomorrow |-> TRUE]
        ELSE [isOn |-> FALSE,
              minutesUntilChange |-> Some(DiffMinutes(r.end, t)),
              isTomorrow |-> FALSE]

InOutageAnyIndex(todayRanges, tomorrowRanges, i, t) ==
    LET r == todayRanges[i]
        extendsToMidnight == HourOf(r.end) = 0 /\ DateOf(r.end) # DateOf(t)
    IN  IF extendsToMidnight /\ Len(tomorrowRanges) > 0
           /\ HourOf(tomorrowRanges[1].start) = 0
           /\ MinuteOf(tomorrowRanges[1].start) = 0
        THEN [isOn |-> FALSE,
              minutesUntilChange |->
                  Some(DiffMinutes(tomorrowRanges[1].end, t)),
              isTomorrow |-> TRUE]
        ELSE [isOn |-> FALSE,
              minutesUntilChange |-> Some(DiffMinutes(r.end, t)),
              isTomorrow |-> FALSE]

\* The body of the for loop for the range r = todayRanges[i] that decides
\* the walk: either now is inside r or now is before r.
InOutage(todayRanges, tomorrowRanges, i, t) ==
    LET r == todayRanges[i]
        isLastOutageOfDay == (i = Len(todayRanges))
        extendsToMidnight == HourOf(r.end) = 0 /\ DateOf(r.end) # DateOf(t)
    IN  IF isLastOutageOfDay /\ extendsToMidnight /\ Len(tomorrowRanges) > 0
        THEN LET tomorrowFirst == tomorrowRanges[1]
                 tomorrowStartsWithOutage ==
                     HourOf(tomorrowFirst.start) = 0
                     /\ MinuteOf(tomorrowFirst.start) = 0
             IN  IF tomorrowStartsWithOutage
                 THEN [isOn |-> FALSE,
                       minutesUntilChange |->
                           Some(DiffMinutes(tomorrowFirst.end, t)),
                       isTomorrow |-> TRUE]
                 ELSE [isOn |-> FALSE,
                       minutesUntilChange |-> Some(DiffMinutes(r.end, t)),
                       isTomorrow |-> FALSE]
        ELSE [isOn |-> FALSE,
              minutesUntilChange |-> Some(DiffMinutes(r.end, t)),
              isTomorrow |-> FALSE]

RECURSIVE WalkTodayNoUpcoming(_, _, _, _)
WalkTodayNoUpcoming(todayRanges, tomorrowRanges, i, t) ==
    IF i > Len(todayRanges)
    THEN [isOn |-> TRUE, minutesUntilChange |-> Null, isTomorrow |-> FALSE]
    ELSE LET r == todayRanges[i]
         IN  IF IsBetween(t, r.start, r.end)
             THEN [isOn |-> FALSE,
                   minutesUntilChange |-> Some(DiffMinutes(r.end, t)),
                   isTomorrow |-> FALSE]
             ELSE WalkTodayNoUpcoming(todayRanges, tomorrowRanges, i + 1, t)

\* The for loop over todayRanges from index i on; the result holds the
\* locals isOn, minutesUntilChange and isTomorrow after the loop.
RECURSIVE WalkToday(_, _, _, _)
WalkToday(todayRanges, tomorrowRanges, i, t) ==
    IF i > Len(todayRanges)
    THEN [isOn |-> TRUE, minutesUntilChange |-> Null, isTomorrow |-> FALSE]
    ELSE LET r == todayRanges[i]
         IN  IF IsBetween(t, r.start, r.end)
             THEN InOutage(todayRanges, tomorrowRanges, i, t)
             ELSE IF t < r.start
             THEN [isOn |-> TRUE,
                   minutesUntilChange |-> Some(DiffMinutes(r.start, t)),
                   isTomorrow |-> FALSE]
             ELSE WalkToday(todayRanges, tomorrowRanges, i + 1, t)

PastTodayNoTomorrow(loop, tomorrowRanges, t) ==
    IF loop.minutesUntilChange = Null
    THEN [isOn |-> TRUE, minutesUntilChange |-> Null, isTomorrow |-> FALSE]
    ELSE loop

PastTodayAlwaysTomorrow(loop, tomorrowRanges, t) ==
    IF loop.minutesUntilChange = Null
    THEN IF Len(tomorrowRanges) > 0
         THEN [isOn |-> TRUE,
               minutesUntilChange |->
                   Some(DiffMinutes(tomorrowRanges[1].start, t)),
               isTomorrow |-> TRUE]
         ELSE [isOn |-> TRUE, minutesUntilChange |-> Null,
               isTomorrow |-> TRUE]
    ELSE loop

\* The block after the loop: past all of today's outages.
PastToday(loop, tomorrowRanges, t) ==
    IF loop.minutesUntilChange = Null
    THEN IF Len(tomorrowRanges) > 0
         THEN [isOn |-> TRUE,
               minutesUntilChange |->
                   Some(DiffMinutes(tomorrowRanges[1].start, t)),
               isTomorrow |-> TRUE]
         ELSE [isOn |-> TRUE, minutesUntilChange |-> Null,
               isTomorrow |-> loop.isTomorrow]
    ELSE loop

getElectricityStatus(todayText, tomorrowText, t) ==
    LET todayBase == StartOfDay(t)
        tomorrowBase == todayBase + DAY
        todayRanges == parseTimeRanges(todayText, todayBase)
        tomorrowRanges ==
            IF tomorrowText.present
            THEN parseTimeRanges(tomorrowText, tomorrowBase)
            ELSE <<>>
        final == PastToday(WalkToday(todayRanges, tomorrowRanges, 1, t),
                           tomorrowRanges, t)
    IN  [isOn |-> final.isOn,
         minutesUntilChange |-> final.minutesUntilChange,
         isTomorrow |-> final.isTomorrow,
         tomorrowFirstOutage |->
             IF tomorrowText.present
             THEN getFirstOutageTime(tomorrowText) ELSE Null,
         hasTomorrowSchedule |->
             tomorrowText.present /\ Len(tomorrowRanges) > 0]

\* --------------------------------------------------------------------------
\* formatGroupEmoji, parseOutageTimes, extractGroupText, extractInfoText,
\* formatInfoTimestamp
\* --------------------------------------------------------------------------
\* A string is a sequence of one-character strings.  numberToEmoji turns
\* each digit into its keycap emoji and keeps every other character.
numberToEmoji(ch) ==
    CASE ch = "0" -> "keycap0" [] ch = "1" -> "keycap1"
      [] ch = "2" -> "keycap2" [] ch = "3" -> "keycap3"
      [] ch = "4" -> "keycap4" [] ch = "5" -> "keycap5"
      [] ch = "6" -> "keycap6" [] ch = "7" -> "keycap7"
      [] ch = "8" -> "keycap8" [] ch = "9" -> "keycap9"
      [] OTHER -> ch

\* group.split('.').map(numberToEmoji).join('.')
formatGroupEmoji(group) == [i \in 1..Len(group) |-> numberToEmoji(group[i])]

\* The label "HH:MM до HH:MM" of an item: the item without its leading "з "
\* and without the final full stop.
ItemLabel(it) ==
    IF it.kind = "range" THEN [from |-> it.s, to |-> it.e]
    ELSE IF it.kind = "half" THEN [from |-> it.s, words |-> "junk"]
    ELSE [words |-> "junk"]

\* groupText.match(/немає з (.*)/), then the pieces between the commas
parseOutageTimes(groupText) ==
    IF groupText.nemae /\ Len(groupText.items) > 0
    THEN [i \in 1..Len(groupText.items) |-> ItemLabel(groupText.items[i])]
    ELSE <<>>

\* An HTML document is the sequence of its <p> elements:
\*   [p |-> "info", stamp |-> st]         "Інформація станом на HH:MM DD.MM.YYYY"
\*   [p |-> "group", group |-> g, text |-> t]    "Група g. ..."
InfoParagraph(st) == [p |-> "info", stamp |-> st]
GroupParagraph(g, t) == [p |-> "group", group |-> g, text |-> t]

MaxOf(S) == CHOOSE x \in S : \A y \in S : y <= x

extractFirstGroupText(html, group) ==
    LET hits == {i \in 1..Len(html) : html[i].p = "group" /\ html[i].group = group}
    IN  IF html = <<>> \/ hits = {} THEN NoText
        ELSE html[CHOOSE i \in hits : \A j \in hits : i <= j].text

extractAnyGroupText(html, group) ==
    LET hits == {i \in 1..Len(html) : html[i].p = "group"}
    IN  IF html = <<>> \/ hits = {} THEN NoText ELSE html[MaxOf(hits)].text

\* $('p').each(...) assigns groupText at every paragraph that starts with
\* "Група <group>."
extractGroupText(html, group) ==
    LET hits == {i \in 1..Len(html) : html[i].p = "group" /\ html[i].group = group}
    IN  IF html = <<>> \/ hits = {} THEN NoText ELSE html[MaxOf(hits)].text

extractInfoText(html) ==
    LET hits == {i \in 1..Len(html) : html[i].p = "info"}
    IN  IF html = <<>> \/ hits = {} THEN Null ELSE Some(html[MaxOf(hits)].stamp)

\* The calendar date of new Date() in formatInfoTimestamp.
ClockDate == "d0"

\* "" for no info text, "Стан на HH:MM" for a stamp of today, "Стан на HH:MM
\* DD.MM.YYYY" otherwise.
formatInfoTimestamp(infoText) ==
    IF infoText = Null THEN <<>>
    ELSE IF infoText[1].date = ClockDate THEN <<infoText[1].time>>
    ELSE <<infoText[1].time, infoText[1].date>>

\* --------------------------------------------------------------------------
\* buildScheduleContent, buildScheduleMessage
\* --------------------------------------------------------------------------
\* A message is the sequence of its lines.
TimeLines(times) == [i \in 1..Len(times) |-> [line |-> "time", label |-> times[i]]]

TodayPartNoAllDay(todayText, group) ==
    LET todayTimes == parseOutageTimes(todayText)
    IN  IF Len(todayTimes) > 0 THEN TimeLines(todayTimes)
        ELSE <<[line |-> "unavailable", group |-> group]>>

TodayPart(todayText, group) ==
    LET todayTimes == parseOutageTimes(todayText)
    IN  IF Len(todayTimes) > 0 THEN TimeLines(todayTimes)
        ELSE IF todayText.marker THEN <<[line |-> "allDay"]>>
        ELSE <<[line |-> "unavailable", group |-> group]>>

TomorrowPartNoAllDay(tomorrowText) ==
    IF tomorrowText.present
    THEN LET tomorrowTimes == parseOutageTimes(tomorrowText)
         IN  IF Len(tomorrowTimes) > 0
             THEN <<[line |-> "tomorrow"]>> \o TimeLines(tomorrowTimes)
             ELSE <<>>
    ELSE <<>>

TomorrowPart(tomorrowText) ==
    IF tomorrowText.present
    THEN LET tomorrowTimes == parseOutageTimes(tomorrowText)
         IN  IF Len(tomorrowTimes) > 0
             THEN <<[line |-> "tomorrow"]>> \o TimeLines(tomorrowTimes)
             ELSE IF tomorrowText.marker THEN <<[line |-> "tomorrowAllDay"]>>
             ELSE <<>>
    ELSE <<>>

\* buildScheduleContent reads the module variable GROUP, passed here as group.
buildScheduleContent(todayText, tomorrowText, group) ==
    TodayPart(todayText, group) \o TomorrowPart(tomorrowText)
        \o <<[line |-> "group", emoji |-> formatGroupEmoji(group)]>>

NotFoundMessage(group) == <<[line |-> "notFound", group |-> group]>>

\* What buildScheduleMessage extracts from the two documents parseSite
\* returned.
Extracted(todayHtml, tomorrowHtml, group) ==
    [today |-> extractGroupText(todayHtml, group),
     tomorrow |-> extractGroupText(tomorrowHtml, group),
     info |-> extractInfoText(todayHtml)]

ContentWithStamp(todayHtml, tomorrowHtml, group) ==
    LET x == Extracted(todayHtml, tomorrowHtml, group)
    IN  IF todayHtml = <<>> \/ ~x.today.present
        THEN [fullMessage |-> [header |-> <<>>, body |-> NotFoundMessage(group)],
              scheduleContent |-> NotFoundMessage(group)]
        ELSE LET scheduleContent == buildScheduleContent(x.today, x.tomorrow, group)
             IN  [fullMessage |-> [header |-> formatInfoTimestamp(x.info),
                                   body |-> scheduleContent],
                  scheduleContent |->
                      <<[line |-> "stamp", at |-> formatInfoTimestamp(x.info)]>>
                          \o scheduleContent]

buildScheduleMessage(todayHtml, tomorrowHtml, group) ==
    LET x == Extracted(todayHtml, tomorrowHtml, group)
    IN  IF todayHtml = <<>> \/ ~x.today.present
        THEN [fullMessage |-> [header |-> <<>>, body |-> NotFoundMessage(group)],
              scheduleContent |-> NotFoundMessage(group)]
        ELSE LET scheduleContent == buildScheduleContent(x.today, x.tomorrow, group)
             IN  [fullMessage |-> [header |-> formatInfoTimestamp(x.info),
                                   body |-> scheduleContent],
                  scheduleContent |-> scheduleContent]

\* --------------------------------------------------------------------------
\* buildStatusMessage
\* --------------------------------------------------------------------------
StatusNotFoundMessage == <<[line |-> "statusNotFound"]>>

\* The message is the header "Статус електроенергії" and the text
\* formatElectricityStatus makes of the status; the status itself stands for
\* that text here.
buildStatusMessage(todayHtml, tomorrowHtml, group, t) ==
    LET todayText == extractGroupText(todayHtml, group)
        tomorrowText == extractGroupText(tomorrowHtml, group)
    IN  IF ~todayText.present THEN StatusNotFoundMessage
        ELSE <<[line |-> "status",
                status |-> getElectricityStatus(todayText, tomorrowText, t)]>>

\* --------------------------------------------------------------------------
\* fetchGroupFromApi
\* --------------------------------------------------------------------------
DEFAULT_GROUP == <<"1", ".", "2">>

\* A chergGpv of the API's JSON is a string or a number; chars is
\* String(chergGpv), one character per element.
Str(chars) == [type |-> "string", chars |-> chars]
Num(chars) == [type |-> "number", chars |-> chars]

\* !chergGpv for a string or a number: the empty string and 0 are falsy.
Falsy(gpv) == gpv.chars = <<>> \/ (gpv.type = "number" /\ gpv.chars = <<"0">>)

CharAt(str, i) == IF i <= Len(str) THEN str[i] ELSE "undefined"

\* gpv[i - 1]: a character of a string, undefined beyond its end and for a
\* number; the template literal prints undefined as the word.
Indexed(gpv, i) == IF gpv.type = "string" THEN CharAt(gpv.chars, i) ELSE "undefined"

\* response is Null when the request fails, no account of the building is
\* found or the account has no chergGpv (null, undefined), and
\* Some(chergGpv) otherwise.
fetchGroupFromApi(response) ==
    IF response = Null \/ Falsy(response[1]) THEN Null
    ELSE Some(<<Indexed(response[1], 1), ".", Indexed(response[1], 2)>>)

\* --------------------------------------------------------------------------
\* parseGroupFromApi
\* --------------------------------------------------------------------------
parseGroupFromApi(response) ==
    IF response = Null \/ Falsy(response[1]) THEN Null
    ELSE LET gpv == response[1].chars
         IN  IF \E i \in DOMAIN gpv : gpv[i] = "." THEN Some(gpv)
             ELSE IF Len(gpv) >= 2 THEN Some(<<gpv[1], ".", gpv[2]>>)
             ELSE Null

\* --------------------------------------------------------------------------
\* Inputs
\* --------------------------------------------------------------------------
\* Clock tokens handed to parseTimeRanges alone: the regex takes any two
\* digits, so 25:00 is a match as well.
ParseClocks == {Clock(0, 0), Clock(0, 30), Clock(23, 0), Clock(24, 0),
                Clock(25, 0)}
ParseItems == {RangeItem(s, e) : s \in ParseClocks, e \in ParseClocks}
                  \cup {JunkItem}
ParseTexts == {Text(FALSE, TRUE, its) : its \in SeqsUpTo(ParseItems, MaxParse)}
\* 00:00 of day 0, 00:00 of day 1, and 12:34:56 of day 1
ParseBases == {0, DAY, DAY + 12 * HOUR + 34 * 60 + 56}

StatusClocks == {Clock(0, 0), Clock(0, 30), Clock(23, 0), Clock(24, 0)}
StatusItems == {RangeItem(s, e) : s \in StatusClocks, e \in StatusClocks}
TodayTexts == {Text(FALSE, TRUE, its) : its \in SeqsUpTo(StatusItems, MaxToday)}
\* Tomorrow texts with words in place of clock times, and with a first item
\* that is not the earliest one.
TomorrowWordTexts ==
    {Text(FALSE, TRUE, <<JunkItem>>),
     Text(FALSE, TRUE, <<HalfItem(Clock(0, 30))>>),
     Text(FALSE, TRUE, <<HalfItem(Clock(23, 0)), RangeItem(Clock(0, 0), Clock(0, 30))>>),
     Text(FALSE, TRUE, <<RangeItem(Clock(23, 0), Clock(24, 0)),
                         RangeItem(Clock(0, 0), Clock(0, 30))>>)}
TomorrowTexts ==
    {NoText} \cup
    {Text(FALSE, TRUE, its) : its \in SeqsUpTo(StatusItems, MaxTomorrow)}
        \cup TomorrowWordTexts
\* 00:00:00, 00:15:30, 00:29:30, 23:00:00 and 23:30:30 of day 0
NowValues == {0, 15 * 60 + 30, 29 * 60 + 30, 23 * HOUR, 23 * HOUR + 30 * 60 + 30}

\* No group check is running and nothing is recorded.
NotifyNotRunning ==
    /\ pcGroup = "idle"
    /\ cursorGroup = 0
    /\ groupMsg = <<>>
    /\ note = <<>>
    /\ attempts = <<>>
    /\ joined = {}
    /\ lastReq = <<>>

\* The bot's variables in the runs of the pure functions.
BotNotRunning ==
    /\ GROUP = <<>>
    /\ lastState = Null
    /\ subscribers = <<>>
    /\ stored = Null
    /\ pcSend = "idle"
    /\ cursor = 0
    /\ sendMsg = Null
    /\ outbox = {}
    /\ polls = <<>>
    /\ NotifyNotRunning

\* The variables of the other pure-function runs before any of them.
ContentNotRun ==
    /\ otherToday = NoText
    /\ otherTomorrow = NoText
    /\ content = Null
    /\ otherContent = Null

MessageNotRun ==
    /\ todayDoc = <<>>
    /\ tomorrowDoc = <<>>
    /\ infoFound = Null
    /\ reply = Null

GroupNotRun ==
    /\ chergGpv = Null
    /\ parsedGroup = Null
    /\ fetched = Null

\* --------------------------------------------------------------------------
\* Specification of parseTimeRanges
\* --------------------------------------------------------------------------
InitParse ==
    /\ phase = "input"
    /\ todayGroupText \in ParseTexts
    /\ tomorrowGroupText = NoText
    /\ now \in ParseBases
    /\ pushed = <<>>
    /\ ranges = <<>>
    /\ status = Null
    /\ BotNotRunning
    /\ ContentNotRun
    /\ MessageNotRun
    /\ GroupNotRun

\* parseTimeRanges(todayGroupText, now)
Parse ==
    /\ phase = "input"
    /\ phase' = "done"
    /\ pushed' = PushedRanges(todayGroupText, now)
    /\ ranges' = parseTimeRanges(todayGroupText, now)
    /\ UNCHANGED <<todayGroupText, tomorrowGroupText, now, status>>
    /\ UNCHANGED botVars
    /\ UNCHANGED <<contentVars, messageVars, groupVars>>

NextParse == Parse

SpecParse == InitParse /\ [][NextParse]_vars

\* --------------------------------------------------------------------------
\* Specification of getElectricityStatus
\* --------------------------------------------------------------------------
InitStatus ==
    /\ phase = "input"
    /\ todayGroupText \in TodayTexts
    /\ tomorrowGroupText \in TomorrowTexts
    /\ now \in NowValues
    /\ pushed = <<>>
    /\ ranges = <<>>
    /\ status = Null
    /\ BotNotRunning
    /\ ContentNotRun
    /\ MessageNotRun
    /\ GroupNotRun

\* getElectricityStatus(todayGroupText, tomorrowGroupText, now)
Evaluate ==
    /\ phase = "input"
    /\ phase' = "done"
    /\ status' = getElectricityStatus(todayGroupText, tomorrowGroupText, now)
    /\ UNCHANGED <<todayGroupText, tomorrowGroupText, now, pushed, ranges>>
    /\ UNCHANGED botVars
    /\ UNCHANGED <<contentVars, messageVars, groupVars>>

NextStatus == Evaluate

SpecStatus == InitStatus /\ [][NextStatus]_vars

\* --------------------------------------------------------------------------
\* Specification of the bot: polls, broadcasts, subscriptions, group
\* --------------------------------------------------------------------------
Chats == 1..MaxChats
Groups == {<<"1", ".", "2">>, <<"2", ".", "1">>}
\* chergGpv "12" and "21", or no value
ApiResponses == {Null, Some(Str(<<"1", "2">>)), Some(Str(<<"2", "1">>))}
Stamps == {[time |-> "10:00", date |-> "d0"], [time |-> "10:10", date |-> "d1"]}
OutageText == Text(FALSE, TRUE, <<RangeItem(Clock(0, 0), Clock(0, 30))>>)
AllDayText == Text(TRUE, FALSE, <<>>)
BotTexts == {OutageText, AllDayText}
TodayDocs ==
    {<<>>} \cup {<<InfoParagraph(st), GroupParagraph(g, t)>> :
                     st \in Stamps, g \in Groups, t \in BotTexts}
TomorrowDocs == {<<>>} \cup {<<GroupParagraph(g, OutageText)>> : g \in Groups}

\* DEFAULT_DATA of the storage
DEFAULT_DATA == [subscribers |-> <<>>, lastState |-> Null, group |-> Null]

\* The state once the module is loaded and startBot has fetched the group:
\* subscribers, lastState and GROUP come from the storage, GROUP is replaced
\* and saved when the fetch gives one.
InitBot ==
    /\ phase = "bot"
    /\ todayGroupText = NoText
    /\ tomorrowGroupText = NoText
    /\ now = 0
    /\ pushed = <<>>
    /\ ranges = <<>>
    /\ status = Null
    /\ ContentNotRun
    /\ MessageNotRun
    /\ GroupNotRun
    /\ \E response \in ApiResponses :
           LET fetchedGroup == fetchGroupFromApi(response)
           IN  IF fetchedGroup # Null
               THEN /\ GROUP = fetchedGroup[1]
                    /\ stored = [DEFAULT_DATA EXCEPT !.group = fetchedGroup]
               ELSE /\ GROUP = DEFAULT_GROUP
                    /\ stored = DEFAULT_DATA
    /\ lastState = Null
    /\ subscribers = <<>>
    /\ pcSend = "idle"
    /\ cursor = 0
    /\ sendMsg = Null
    /\ outbox = {}
    /\ polls = <<>>
    /\ NotifyNotRunning

Has(chatId) == \E i \in 1..Len(subscribers) : subscribers[i] = chatId
IndexOf(chatId) == CHOOSE i \in 1..Len(subscribers) : subscribers[i] = chatId
Without(chatId) == SelectSeq(subscribers, LAMBDA c : c # chatId)

\* What a poll computed, kept for the properties.
PollRecord(todayHtml, tomorrowHtml, group, msg) ==
    LET x == Extracted(todayHtml, tomorrowHtml, group)
        built == todayHtml # <<>> /\ x.today.present
    IN  [built |-> built,
         today |-> IF built THEN x.today ELSE NoText,
         tomorrow |-> IF built THEN x.tomorrow ELSE NoText,
         info |-> IF built THEN x.info ELSE Null,
         group |-> group,
         content |-> msg.scheduleContent]

Remember(rec) == <<rec>> \o (IF polls = <<>> THEN <<>> ELSE <<polls[1]>>)

ForgetfulCompareAndStore(msg) ==
    IF Some(msg.scheduleContent) # lastState
    THEN /\ UNCHANGED <<lastState, stored>>
         /\ pcSend' = "sending"
         /\ cursor' = 0
         /\ sendMsg' = Some(msg.fullMessage)
    ELSE UNCHANGED <<lastState, stored, pcSend, cursor, sendMsg>>

\* checkAndSend from the comparison up to the for loop.  lastState holds Null
\* or a content: scheduleContent !== lastState.
CompareAndStore(msg) ==
    IF Some(msg.scheduleContent) # lastState
    THEN /\ lastState' = Some(msg.scheduleContent)
         /\ stored' = [stored EXCEPT !.lastState = Some(msg.scheduleContent)]
         /\ pcSend' = "sending"
         /\ cursor' = 0
         /\ sendMsg' = Some(msg.fullMessage)
    ELSE UNCHANGED <<lastState, stored, pcSend, cursor, sendMsg>>

\* checkAndSend, from the cron tick to the first await of the for loop.  The
\* ten minutes between two ticks outlast a broadcast: a poll starts when the
\* loop of the one before has ended.  A failing parseSite changes nothing.
CheckAndSendFrom(todayDocs, tomorrowDocs) ==
    /\ pcSend = "idle"
    /\ \E todayHtml \in todayDocs, tomorrowHtml \in tomorrowDocs :
           LET msg == buildScheduleMessage(todayHtml, tomorrowHtml, GROUP)
           IN  /\ CompareAndStore(msg)
               /\ polls' = Remember(PollRecord(todayHtml, tomorrowHtml, GROUP, msg))
    /\ outbox' = {}
    /\ UNCHANGED <<GROUP, subscribers>>
    /\ UNCHANGED pureVars

\* The documents the site serves in the runs of SpecBot.
CheckAndSend == CheckAndSendFrom(TodayDocs, TomorrowDocs)

\* One pass of the for loop whose sendMessage resolves, or rejects with an
\* error code other than 403 and 400.
SendDelivered ==
    /\ pcSend = "sending"
    /\ cursor < Len(subscribers)
    /\ outbox' = outbox \cup {subscribers[cursor + 1]}
    /\ cursor' = cursor + 1
    /\ UNCHANGED <<GROUP, lastState, subscribers, stored, pcSend, sendMsg, polls>>
    /\ UNCHANGED pureVars

SendRejectedSkipping ==
    /\ pcSend = "sending"
    /\ cursor < Len(subscribers)
    /\ LET chatId == subscribers[cursor + 1]
       IN  /\ outbox' = outbox \cup {chatId}
           /\ subscribers' = Without(chatId)
           /\ stored' = [stored EXCEPT !.subscribers = Without(chatId)]
    /\ cursor' = cursor + 1
    /\ UNCHANGED <<GROUP, lastState, pcSend, sendMsg, polls>>
    /\ UNCHANGED pureVars

\* One pass of the for loop whose sendMessage rejects with 403 or 400: the
\* chat is deleted from the Set under iteration and the Set is saved.
SendRejected ==
    /\ pcSend = "sending"
    /\ cursor < Len(subscribers)
    /\ LET chatId == subscribers[cursor + 1]
       IN  /\ outbox' = outbox \cup {chatId}
           /\ subscribers' = Without(chatId)
           /\ stored' = [stored EXCEPT !.subscribers = Without(chatId)]
    /\ UNCHANGED <<GROUP, lastState, pcSend, cursor, sendMsg, polls>>
    /\ UNCHANGED pureVars

\* The iterator of the Set is exhausted.
SendDone ==
    /\ pcSend = "sending"
    /\ cursor >= Len(subscribers)
    /\ pcSend' = "idle"
    /\ cursor' = 0
    /\ sendMsg' = Null
    /\ UNCHANGED <<GROUP, lastState, subscribers, stored, outbox, polls>>
    /\ UNCHANGED pureVars

handleSubscribe(chatId) ==
    /\ IF Has(chatId)
       THEN UNCHANGED <<subscribers, stored>>
       ELSE /\ subscribers' = Append(subscribers, chatId)
            /\ stored' = [stored EXCEPT !.subscribers = Append(subscribers, chatId)]
    /\ UNCHANGED <<GROUP, lastState, pcSend, cursor, sendMsg, outbox, polls>>
    /\ UNCHANGED pureVars

handleUnsubscribeUnsaved(chatId) ==
    /\ IF ~Has(chatId)
       THEN UNCHANGED <<subscribers, cursor>>
       ELSE /\ subscribers' = Without(chatId)
            /\ cursor' = IF IndexOf(chatId) <= cursor THEN cursor - 1 ELSE cursor
    /\ UNCHANGED <<GROUP, lastState, stored, pcSend, sendMsg, outbox, polls>>
    /\ UNCHANGED pureVars

\* A deleted entry that the running iterator has passed no longer counts.
handleUnsubscribe(chatId) ==
    /\ IF ~Has(chatId)
       THEN UNCHANGED <<subscribers, stored, cursor>>
       ELSE /\ subscribers' = Without(chatId)
            /\ stored' = [stored EXCEPT !.subscribers = Without(chatId)]
            /\ cursor' = IF IndexOf(chatId) <= cursor THEN cursor - 1 ELSE cursor
    /\ UNCHANGED <<GROUP, lastState, pcSend, sendMsg, outbox, polls>>
    /\ UNCHANGED pureVars

handleMyGroup(response) ==
    /\ LET newGroup == fetchGroupFromApi(response)
       IN  IF newGroup # Null /\ newGroup[1] # GROUP
           THEN /\ GROUP' = newGroup[1]
                /\ stored' = [stored EXCEPT !.group = newGroup]
           ELSE UNCHANGED <<GROUP, stored>>
    /\ UNCHANGED <<lastState, subscribers, pcSend, cursor, sendMsg, outbox, polls>>
    /\ UNCHANGED pureVars

\* The polls, the broadcasts and the commands; the group check does not run.
NextBot ==
    \/ CheckAndSend /\ UNCHANGED notifyVars
    \/ SendDelivered /\ UNCHANGED notifyVars
    \/ SendRejected /\ UNCHANGED notifyVars
    \/ SendDone /\ UNCHANGED notifyVars
    \/ \E chatId \in Chats : handleSubscribe(chatId) /\ UNCHANGED notifyVars
    \/ \E chatId \in Chats : handleUnsubscribe(chatId) /\ UNCHANGED notifyVars
    \/ \E response \in ApiResponses :
           handleMyGroup(response) /\ UNCHANGED notifyVars

SpecBot == InitBot /\ [][NextBot]_vars

\* --------------------------------------------------------------------------
\* Specification of the bot with checkAndUpdateGroup.  The two cron jobs fire
\* in the same minute every half hour, so the loop of checkAndSend and the
\* loop of checkAndUpdateGroup can iterate over the Set at the same time.
\* note, attempts, joined and lastReq record what happened; no action reads
\* them.
\* --------------------------------------------------------------------------
\* The document of today holds the paragraphs of both groups and stays the
\* same during a run.
NotifyStamp == [time |-> "10:00", date |-> "d0"]
NotifyTodayDocs ==
    {<<InfoParagraph(NotifyStamp),
       GroupParagraph(<<"1", ".", "2">>, OutageText),
       GroupParagraph(<<"2", ".", "1">>, AllDayText)>>}
NotifyTomorrowDocs == {<<>>}

\* The subscribers loaded from the storage when the module is loaded.
LoadedSubscribers == {<<>>, <<1>>}

Members == {subscribers[i] : i \in 1..Len(subscribers)}
NoAttempts == [chatId \in Chats |-> 0]
\* One more call for the chat; 2 stands for two calls or more.
Attempted(chatId) ==
    [attempts EXCEPT ![chatId] = IF @ < 2 THEN @ + 1 ELSE @]

\* lastReq of a chat is its latest request ("subscribe", "unsubscribe"),
\* "loaded" for a chat that came from the storage and "none" for a chat that
\* never asked; a failed send that deletes the chat adds a mark to it.
Removed(request) ==
    IF request = "subscribe" THEN "subscribe, removed"
    ELSE IF request = "loaded" THEN "loaded, removed"
    ELSE request

\* The position of a running Set iterator once the entry at index is deleted.
AfterDelete(position, index) ==
    IF index <= position THEN position - 1 ELSE position

InitNotify ==
    /\ phase = "bot"
    /\ todayGroupText = NoText
    /\ tomorrowGroupText = NoText
    /\ now = 0
    /\ pushed = <<>>
    /\ ranges = <<>>
    /\ status = Null
    /\ ContentNotRun
    /\ MessageNotRun
    /\ GroupNotRun
    /\ subscribers \in LoadedSubscribers
    /\ \E response \in ApiResponses :
           LET fetchedGroup == fetchGroupFromApi(response)
               loaded == [DEFAULT_DATA EXCEPT !.subscribers = subscribers]
           IN  IF fetchedGroup # Null
               THEN /\ GROUP = fetchedGroup[1]
                    /\ stored = [loaded EXCEPT !.group = fetchedGroup]
               ELSE /\ GROUP = DEFAULT_GROUP
                    /\ stored = loaded
    /\ lastState = Null
    /\ pcSend = "idle"
    /\ cursor = 0
    /\ sendMsg = Null
    /\ outbox = {}
    /\ polls = <<>>
    /\ pcGroup = "idle"
    /\ cursorGroup = 0
    /\ groupMsg = Null
    /\ note = Null
    /\ attempts = NoAttempts
    /\ joined = {}
    /\ lastReq = [chatId \in Chats |->
                     IF Has(chatId) THEN "loaded" ELSE "none"]

\* checkAndUpdateGroup, from the cron tick to the await of
\* buildScheduleMessage.  The half hour between two ticks outlasts a
\* notification loop.
checkAndUpdateGroup(response) ==
    /\ pcGroup = "idle"
    /\ LET newGroup == fetchGroupFromApi(response)
       IN  IF newGroup # Null /\ newGroup[1] # GROUP
           THEN /\ GROUP' = newGroup[1]
                /\ stored' = [stored EXCEPT !.group = newGroup]
                /\ pcGroup' = "building"
                /\ groupMsg' = Some([oldGroup |-> GROUP,
                                     newGroup |-> newGroup[1],
                                     fullMessage |-> Null])
                /\ note' = Some([new |-> newGroup[1], built |-> Null,
                                 to |-> {}, done |-> FALSE, polled |-> FALSE])
           ELSE UNCHANGED <<GROUP, stored, pcGroup, groupMsg, note>>
    /\ UNCHANGED <<lastState, subscribers, pcSend, cursor, sendMsg, outbox,
                   polls, cursorGroup, attempts, joined, lastReq>>
    /\ UNCHANGED pureVars

\* parseSite answers: buildScheduleMessage reads GROUP as it is then, and the
\* for loop starts.
NotificationBuilt ==
    /\ pcGroup = "building"
    /\ \E todayHtml \in NotifyTodayDocs, tomorrowHtml \in NotifyTomorrowDocs :
           LET msg == buildScheduleMessage(todayHtml, tomorrowHtml, GROUP)
           IN  /\ groupMsg' =
                      Some([groupMsg[1] EXCEPT
                                !.fullMessage = Some(msg.fullMessage)])
               /\ note' =
                      Some([note[1] EXCEPT
                                !.built = Some([group |-> GROUP,
                                                content |-> msg.scheduleContent])])
    /\ pcGroup' = "notifying"
    /\ cursorGroup' = 0
    /\ UNCHANGED <<GROUP, lastState, subscribers, stored, pcSend, cursor,
                   sendMsg, outbox, polls, attempts, joined, lastReq>>
    /\ UNCHANGED pureVars

\* parseSite throws: the inner catch logs the error and nothing is sent.
NotificationFailed ==
    /\ pcGroup = "building"
    /\ pcGroup' = "idle"
    /\ groupMsg' = Null
    /\ note' = Some([note[1] EXCEPT !.done = TRUE])
    /\ UNCHANGED <<GROUP, lastState, subscribers, stored, pcSend, cursor,
                   sendMsg, outbox, polls, cursorGroup, attempts, joined,
                   lastReq>>
    /\ UNCHANGED pureVars

\* One pass of the notification loop whose sendMessage resolves, or rejects
\* with an error code other than 403 and 400.
NotifyDelivered ==
    /\ pcGroup = "notifying"
    /\ cursorGroup < Len(subscribers)
    /\ note' = Some([note[1] EXCEPT !.to = @ \cup {subscribers[cursorGroup + 1]}])
    /\ cursorGroup' = cursorGroup + 1
    /\ UNCHANGED <<GROUP, lastState, subscribers, stored, pcSend, cursor,
                   sendMsg, outbox, polls, pcGroup, groupMsg, attempts,
                   joined, lastReq>>
    /\ UNCHANGED pureVars

NotifyRejectedSkipping ==
    /\ pcGroup = "notifying"
    /\ cursorGroup < Len(subscribers)
    /\ LET chatId == subscribers[cursorGroup + 1]
       IN  /\ note' = Some([note[1] EXCEPT !.to = @ \cup {chatId}])
           /\ subscribers' = Without(chatId)
           /\ stored' = [stored EXCEPT !.subscribers = Without(chatId)]
           /\ lastReq' = [lastReq EXCEPT ![chatId] = Removed(@)]
    /\ cursor' = AfterDelete(cursor, cursorGroup + 1)
    /\ cursorGroup' = cursorGroup + 1
    /\ UNCHANGED <<GROUP, lastState, pcSend, sendMsg, outbox, polls, pcGroup,
                   groupMsg, attempts, joined>>
    /\ UNCHANGED pureVars

\* One pass of the notification loop whose sendMessage rejects with 403 or
\* 400: the chat is deleted from the Set, which the loop of checkAndSend may
\* be iterating over too, and the Set is saved.
NotifyRejected ==
    /\ pcGroup = "notifying"
    /\ cursorGroup < Len(subscribers)
    /\ LET chatId == subscribers[cursorGroup + 1]
       IN  /\ note' = Some([note[1] EXCEPT !.to = @ \cup {chatId}])
           /\ subscribers' = Without(chatId)
           /\ stored' = [stored EXCEPT !.subscribers = Without(chatId)]
           /\ lastReq' = [lastReq EXCEPT ![chatId] = Removed(@)]
    /\ cursor' = AfterDelete(cursor, cursorGroup + 1)
    /\ UNCHANGED <<GROUP, lastState, pcSend, sendMsg, outbox, polls, pcGroup,
                   cursorGroup, groupMsg, attempts, joined>>
    /\ UNCHANGED pureVars

\* The iterator of the notification loop is exhausted.
NotifyDone ==
    /\ pcGroup = "notifying"
    /\ cursorGroup >= Len(subscribers)
    /\ pcGroup' = "idle"
    /\ cursorGroup' = 0
    /\ groupMsg' = Null
    /\ note' = Some([note[1] EXCEPT !.done = TRUE])
    /\ UNCHANGED <<GROUP, lastState, subscribers, stored, pcSend, cursor,
                   sendMsg, outbox, polls, attempts, joined, lastReq>>
    /\ UNCHANGED pureVars

\* The actions of SpecBot with the record kept and, where an entry of the Set
\* is deleted, the iterator of the notification loop moved.
PollOfNotify ==
    /\ CheckAndSendFrom(NotifyTodayDocs, NotifyTomorrowDocs)
    /\ attempts' = NoAttempts
    /\ joined' = {}
    /\ note' = IF note # Null /\ note[1].done
               THEN IF note[1].polled THEN Null
                    ELSE Some([note[1] EXCEPT !.polled = TRUE])
               ELSE note
    /\ UNCHANGED <<pcGroup, cursorGroup, groupMsg, lastReq>>

DeliveredOfNotify ==
    /\ SendDelivered
    /\ attempts' = Attempted(subscribers[cursor + 1])
    /\ UNCHANGED <<pcGroup, cursorGroup, groupMsg, note, joined, lastReq>>

RejectedOfNotify ==
    /\ SendRejected
    /\ attempts' = Attempted(subscribers[cursor + 1])
    /\ lastReq' = [lastReq EXCEPT ![subscribers[cursor + 1]] = Removed(@)]
    /\ cursorGroup' = AfterDelete(cursorGroup, cursor + 1)
    /\ UNCHANGED <<pcGroup, groupMsg, note, joined>>

DoneOfNotify ==
    /\ SendDone
    /\ attempts' = NoAttempts
    /\ joined' = {}
    /\ UNCHANGED <<pcGroup, cursorGroup, groupMsg, note, lastReq>>

SubscribeOfNotify(chatId) ==
    /\ handleSubscribe(chatId)
    /\ lastReq' = [lastReq EXCEPT ![chatId] = "subscribe"]
    /\ joined' = IF ~Has(chatId) /\ pcSend = "sending"
                 THEN joined \cup {chatId} ELSE joined
    /\ UNCHANGED <<pcGroup, cursorGroup, groupMsg, note, attempts>>

UnsubscribeOfNotify(chatId) ==
    /\ handleUnsubscribe(chatId)
    /\ lastReq' = [lastReq EXCEPT ![chatId] = "unsubscribe"]
    /\ cursorGroup' = IF Has(chatId)
                      THEN AfterDelete(cursorGroup, IndexOf(chatId))
                      ELSE cursorGroup
    /\ UNCHANGED <<pcGroup, groupMsg, note, attempts, joined>>

MyGroupOfNotify(response) ==
    /\ handleMyGroup(response)
    /\ UNCHANGED notifyVars

NextNotify ==
    \/ PollOfNotify
    \/ DeliveredOfNotify
    \/ RejectedOfNotify
    \/ DoneOfNotify
    \/ \E chatId \in Chats : SubscribeOfNotify(chatId)
    \/ \E chatId \in Chats : UnsubscribeOfNotify(chatId)
    \/ \E response \in ApiResponses : MyGroupOfNotify(response)
    \/ \E response \in ApiResponses : checkAndUpdateGroup(response)
    \/ NotificationBuilt
    \/ NotificationFailed
    \/ NotifyDelivered
    \/ NotifyRejected
    \/ NotifyDone

SpecNotify == InitNotify /\ [][NextNotify]_vars

\* --------------------------------------------------------------------------
\* Specification of buildScheduleContent: two calls with the same GROUP
\* --------------------------------------------------------------------------
ContentClocks == {Clock(0, 0), Clock(0, 30)}
ContentItems ==
    {RangeItem(s, e) : s \in ContentClocks, e \in ContentClocks} \cup {JunkItem}
ContentTexts ==
    {Text(mk, nm, its) : mk \in BOOLEAN, nm \in BOOLEAN,
                         its \in SeqsUpTo(ContentItems, MaxLabels)}

\* The texts that differ from text in one clock time of one item.
Retimed(text) ==
    IF ~text.present THEN {}
    ELSE LET rangeAt == {i \in DOMAIN text.items : text.items[i].kind = "range"}
         IN  {[text EXCEPT !.items[i].s = c] : i \in rangeAt, c \in ContentClocks}
             \cup {[text EXCEPT !.items[i].e = c] : i \in rangeAt, c \in ContentClocks}

\* The texts that differ from text in the presence of "Електроенергія є".
Remarked(text) ==
    IF ~text.present THEN {} ELSE {[text EXCEPT !.marker = ~text.marker]}

\* The arguments of the second call: those of the first one, or those with
\* one clock time changed, with the marker phrase added or removed, or
\* without tomorrow's text.
SecondCalls(todayText, tomorrowText) ==
    {<<todayText, tomorrowText>>, <<todayText, NoText>>}
        \cup {<<t, tomorrowText>> : t \in Retimed(todayText) \cup Remarked(todayText)}
        \cup {<<todayText, t>> : t \in Retimed(tomorrowText) \cup Remarked(tomorrowText)}

InitContent ==
    /\ phase = "input"
    /\ todayGroupText \in ContentTexts
    /\ tomorrowGroupText \in {NoText} \cup ContentTexts
    /\ \E second \in SecondCalls(todayGroupText, tomorrowGroupText) :
           /\ otherToday = second[1]
           /\ otherTomorrow = second[2]
    /\ content = Null
    /\ otherContent = Null
    /\ now = 0
    /\ pushed = <<>>
    /\ ranges = <<>>
    /\ status = Null
    /\ GROUP \in Groups
    /\ lastState = Null
    /\ subscribers = <<>>
    /\ stored = Null
    /\ pcSend = "idle"
    /\ cursor = 0
    /\ sendMsg = Null
    /\ outbox = {}
    /\ polls = <<>>
    /\ NotifyNotRunning
    /\ MessageNotRun
    /\ GroupNotRun

\* buildScheduleContent(todayGroupText, tomorrowGroupText) and
\* buildScheduleContent(otherToday, otherTomorrow)
BuildContent ==
    /\ phase = "input"
    /\ phase' = "done"
    /\ content' = Some(buildScheduleContent(todayGroupText, tomorrowGroupText, GROUP))
    /\ otherContent' = Some(buildScheduleContent(otherToday, otherTomorrow, GROUP))
    /\ UNCHANGED <<todayGroupText, tomorrowGroupText, now, pushed, ranges,
                   status, otherToday, otherTomorrow>>
    /\ UNCHANGED <<messageVars, groupVars>>
    /\ UNCHANGED botVars

NextContent == BuildContent

SpecContent == InitContent /\ [][NextContent]_vars

\* --------------------------------------------------------------------------
\* Specification of buildScheduleMessage and buildStatusMessage
\* --------------------------------------------------------------------------
MessageParagraphs ==
    {InfoParagraph(st) : st \in Stamps}
        \cup {GroupParagraph(g, t) : g \in Groups, t \in BotTexts}
MessageDocs == SeqsUpTo(MessageParagraphs, MaxParagraphs)
\* 00:15:30 and 23:30:30 of day 0
MessageNows == {15 * 60 + 30, 23 * HOUR + 30 * 60 + 30}

InitMessage ==
    /\ phase = "input"
    /\ todayDoc \in MessageDocs
    /\ tomorrowDoc \in TomorrowDocs
    /\ GROUP \in Groups
    /\ now \in MessageNows
    /\ todayGroupText = NoText
    /\ tomorrowGroupText = NoText
    /\ infoFound = Null
    /\ reply = Null
    /\ content = Null
    /\ status = Null
    /\ pushed = <<>>
    /\ ranges = <<>>
    /\ otherToday = NoText
    /\ otherTomorrow = NoText
    /\ otherContent = Null
    /\ lastState = Null
    /\ subscribers = <<>>
    /\ stored = Null
    /\ pcSend = "idle"
    /\ cursor = 0
    /\ sendMsg = Null
    /\ outbox = {}
    /\ polls = <<>>
    /\ NotifyNotRunning
    /\ GroupNotRun

\* buildScheduleMessage() with parseSite returning todayDoc and tomorrowDoc:
\* its locals todayGroupText, tomorrowGroupText and infoText, the result of
\* its call of buildScheduleContent, and what it returns.
BuildScheduleMessage ==
    /\ phase = "input"
    /\ phase' = "schedule"
    /\ reply' = Some(buildScheduleMessage(todayDoc, tomorrowDoc, GROUP))
    /\ IF todayDoc = <<>>
       THEN UNCHANGED <<todayGroupText, tomorrowGroupText, infoFound, content>>
       ELSE LET x == Extracted(todayDoc, tomorrowDoc, GROUP)
            IN  /\ todayGroupText' = x.today
                /\ tomorrowGroupText' = x.tomorrow
                /\ infoFound' = x.info
                /\ content' = IF x.today.present
                              THEN Some(buildScheduleContent(x.today, x.tomorrow, GROUP))
                              ELSE Null
    /\ UNCHANGED <<now, pushed, ranges, status, otherToday, otherTomorrow,
                   otherContent, todayDoc, tomorrowDoc>>
    /\ UNCHANGED groupVars
    /\ UNCHANGED botVars

\* buildStatusMessage() with parseSite returning todayDoc and tomorrowDoc, at
\* the instant now: its locals, the status it evaluated, what it returns.
BuildStatusMessage ==
    /\ phase = "input"
    /\ phase' = "status"
    /\ reply' = Some(buildStatusMessage(todayDoc, tomorrowDoc, GROUP, now))
    /\ todayGroupText' = extractGroupText(todayDoc, GROUP)
    /\ tomorrowGroupText' = extractGroupText(tomorrowDoc, GROUP)
    /\ status' = IF extractGroupText(todayDoc, GROUP).present
                 THEN getElectricityStatus(extractGroupText(todayDoc, GROUP),
                                           extractGroupText(tomorrowDoc, GROUP), now)
                 ELSE Null
    /\ UNCHANGED <<now, pushed, ranges, otherToday, otherTomorrow, content,
                   otherContent, todayDoc, tomorrowDoc, infoFound>>
    /\ UNCHANGED groupVars
    /\ UNCHANGED botVars

NextMessage == BuildScheduleMessage \/ BuildStatusMessage

SpecMessage == InitMessage /\ [][NextMessage]_vars

\* --------------------------------------------------------------------------
\* Specification of parseGroupFromApi and fetchGroupFromApi
\* --------------------------------------------------------------------------
GpvDigits == {"1", "2"}
GpvStrings == {Str(chars) : chars \in SeqsUpTo(GpvDigits \cup {"."}, MaxGpv)}
\* 0, the whole numbers written with the digits, and 1.2
GpvNumbers ==
    {Num(<<"0">>), Num(<<"1", ".", "2">>)}
        \cup {Num(chars) : chars \in SeqsUpTo(GpvDigits, MaxGpv) \ {<<>>}}
GpvResponses == {Null} \cup {Some(gpv) : gpv \in GpvStrings \cup GpvNumbers}

InitGroup ==
    /\ phase = "input"
    /\ chergGpv \in GpvResponses
    /\ parsedGroup = Null
    /\ fetched = Null
    /\ todayGroupText = NoText
    /\ tomorrowGroupText = NoText
    /\ now = 0
    /\ pushed = <<>>
    /\ ranges = <<>>
    /\ status = Null
    /\ BotNotRunning
    /\ ContentNotRun
    /\ MessageNotRun

\* parseGroupFromApi(chergGpv)
ParseGroup ==
    /\ phase = "input"
    /\ phase' = "parsed"
    /\ parsedGroup' = parseGroupFromApi(chergGpv)
    /\ UNCHANGED <<todayGroupText, tomorrowGroupText, now, pushed, ranges,
                   status, chergGpv, fetched>>
    /\ UNCHANGED <<contentVars, messageVars>>
    /\ UNCHANGED botVars

\* fetchGroupFromApi() when the API answers with chergGpv for the building
FetchGroup ==
    /\ phase = "parsed"
    /\ phase' = "done"
    /\ fetched' = fetchGroupFromApi(chergGpv)
    /\ UNCHANGED <<todayGroupText, tomorrowGroupText, now, pushed, ranges,
                   status, chergGpv, parsedGroup>>
    /\ UNCHANGED <<contentVars, messageVars>>
    /\ UNCHANGED botVars

NextGroup == ParseGroup \/ FetchGroup

SpecGroup == InitGroup /\ [][NextGroup]_vars

\* --------------------------------------------------------------------------
\* Properties of parseTimeRanges
\* --------------------------------------------------------------------------
\* The offset of a clock token from 00:00 of the reference day, in seconds.
ClockOffset(c) == c.h * HOUR + c.m * 60
ParsedMatches == Matches(todayGroupText)
ReferenceDayStart == now - (now % DAY)

\* C6 as stated: every interval returned by parseTimeRanges has end > start.
C6_StrictlyOrdered ==
    phase = "done" => \A i \in 1..Len(ranges) : ranges[i].end > ranges[i].start

\* C6 amended: every interval whose start is a clock time up to 24:00 has
\* end >= start; a match whose start and end clock times are equal yields
\* end = start, and a match whose end clock time is later than its start
\* yields end > start.
C6_Ordered ==
    phase = "done" =>
        /\ \A i \in 1..Len(ranges) :
               ranges[i].start <= ReferenceDayStart + DAY
                   => ranges[i].end >= ranges[i].start
        /\ \A i \in 1..Len(pushed) :
               /\ ParsedMatches[i].s = ParsedMatches[i].e
                      => pushed[i].end = pushed[i].start
               /\ ClockOffset(ParsedMatches[i].e) > ClockOffset(ParsedMatches[i].s)
                      => pushed[i].end > pushed[i].start

C6_Witness ==
    /\ phase = "done"
    /\ \E i \in 1..Len(ranges) : ranges[i].end = ranges[i].start
    /\ \E i \in 1..Len(pushed) :
           /\ ClockOffset(ParsedMatches[i].e) < ClockOffset(ParsedMatches[i].s)
           /\ pushed[i].end > pushed[i].start

\* C7 as stated: every match whose end is the literal 24:00 yields an end
\* equal to the reference day start plus one day.
C7_SentinelAlways ==
    phase = "done" =>
        \A i \in 1..Len(pushed) :
            ParsedMatches[i].e = Clock(24, 0)
                => pushed[i].end = ReferenceDayStart + DAY

\* C7 amended: every match whose end is the literal 24:00 and whose start
\* clock time is not later than 24:00 yields an end equal to the reference
\* day start plus one day.
C7_Sentinel ==
    phase = "done" =>
        \A i \in 1..Len(pushed) :
            /\ ParsedMatches[i].e = Clock(24, 0)
            /\ ClockOffset(ParsedMatches[i].s) <= DAY
            => pushed[i].end = ReferenceDayStart + DAY

C7_Witness ==
    /\ phase = "done"
    /\ now % DAY # 0
    /\ \E i \in 1..Len(pushed) :
           /\ ParsedMatches[i].e = Clock(24, 0)
           /\ ParsedMatches[i].s = Clock(24, 0)
           /\ pushed[i].end = ReferenceDayStart + DAY

\* C8: the returned sequence is ascending by start and holds exactly one
\* interval per matched occurrence (the intervals built by the loop, in some
\* order).
RangeItemCount ==
    Cardinality({i \in DOMAIN todayGroupText.items :
                     todayGroupText.items[i].kind = "range"})
CountIn(seq, r) == Cardinality({i \in DOMAIN seq : seq[i] = r})

C8_Sorted ==
    phase = "done" =>
        /\ \A i \in 1..(Len(ranges) - 1) : ranges[i].start <= ranges[i + 1].start
        /\ Len(ranges) = RangeItemCount
        /\ \A i \in 1..Len(pushed) :
               CountIn(ranges, pushed[i]) = CountIn(pushed, pushed[i])

C8_Witness ==
    /\ phase = "done"
    /\ Len(ranges) = 2
    /\ pushed[1].start > pushed[2].start
    /\ ranges[1] = pushed[2]

\* --------------------------------------------------------------------------
\* Properties of getElectricityStatus
\* --------------------------------------------------------------------------
TodayBase == now - (now % DAY)
TomorrowBase == TodayBase + DAY
Today == parseTimeRanges(todayGroupText, TodayBase)
Tomorrow ==
    IF tomorrowGroupText.present
    THEN parseTimeRanges(tomorrowGroupText, TomorrowBase) ELSE <<>>

\* The whole minutes from instant a to a later instant b.
WholeMinutes(a, b) == (b - a) \div 60
Contains(r) == r.start <= now /\ now < r.end
\* No interval before index i in start order holds now.
FirstContaining(i) == Contains(Today[i]) /\ \A j \in 1..(i - 1) : ~Contains(Today[j])
IsLastOfToday(i) == i = Len(Today)
MinOf(S) == CHOOSE x \in S : \A y \in S : x <= y

\* C1 as stated: now inside today's last interval, which ends at 00:00 of
\* the following day, and tomorrow's first interval starting at that 00:00:
\* OFF, isTomorrow, minutes up to the end of tomorrow's first interval.
C1_Premise(i) ==
    /\ IsLastOfToday(i)
    /\ Contains(Today[i])
    /\ Today[i].end = TomorrowBase
    /\ Len(Tomorrow) > 0
    /\ Tomorrow[1].start = TomorrowBase
C1_Conclusion ==
    /\ status.isOn = FALSE
    /\ status.isTomorrow = TRUE
    /\ status.minutesUntilChange = Some(WholeMinutes(now, Tomorrow[1].end))

C1_ContinuationAnyLast ==
    phase = "done" => \A i \in 1..Len(Today) : C1_Premise(i) => C1_Conclusion

\* C1 amended: the same, provided no earlier interval of today (in start
\* order) also holds now.
C1_Continuation ==
    phase = "done" =>
        \A i \in 1..Len(Today) :
            C1_Premise(i) /\ FirstContaining(i) => C1_Conclusion

C1_Witness ==
    /\ phase = "done"
    /\ \E i \in 1..Len(Today) : C1_Premise(i) /\ FirstContaining(i)
    /\ Len(Today) = 2
    /\ Tomorrow[1].end > TomorrowBase
    /\ now % 60 # 0
    /\ status.isTomorrow

\* C2 as stated: now inside today's last interval, which ends at 00:00 of
\* the following day, and tomorrow's first interval not starting at that
\* 00:00: OFF, not isTomorrow, minutes up to midnight.
C2_Premise(i) ==
    /\ IsLastOfToday(i)
    /\ Contains(Today[i])
    /\ Today[i].end = TomorrowBase
    /\ Len(Tomorrow) > 0
C2_Conclusion(i) ==
    /\ status.isOn = FALSE
    /\ status.isTomorrow = FALSE
    /\ status.minutesUntilChange = Some(WholeMinutes(now, Today[i].end))

C3_BranchTaken(i) ==
    /\ IsLastOfToday(i)
    /\ (Today[i].end % DAY) < HOUR
    /\ Today[i].end >= TomorrowBase
    /\ Len(Tomorrow) > 0
    /\ Tomorrow[1].start % DAY = 0
NotEndedStarts == {Today[i].start : i \in {j \in 1..Len(Today) : Today[j].end > now}}
C4_Premise ==
    /\ \A i \in 1..Len(Today) : ~Contains(Today[i])
    /\ \E i \in 1..Len(Today) : now < Today[i].start
C4_Upcoming ==
    phase = "done" /\ C4_Premise =>
        /\ status.isOn = TRUE
        /\ status.isTomorrow = FALSE
        /\ status.minutesUntilChange = Some(WholeMinutes(now, MinOf(NotEndedStarts)))

C4_Witness ==
    /\ phase = "done"
    /\ C4_Premise
    /\ \E i \in 1..Len(Today) : Today[i].end <= now
    /\ Len(Tomorrow) > 0
    /\ now % 60 # 0
    /\ status.minutesUntilChange = Some(14)

\* C5: now at or after the end of every today interval: ON; with a
\* non-empty tomorrow set, isTomorrow and minutes up to the start of
\* tomorrow's first interval; otherwise no minutes and not isTomorrow.
C5_Premise == \A i \in 1..Len(Today) : Today[i].end <= now
TomorrowStarts == {Tomorrow[i].start : i \in 1..Len(Tomorrow)}
C5_PastToday ==
    phase = "done" /\ C5_Premise =>
        /\ status.isOn = TRUE
        /\ Len(Tomorrow) > 0 =>
               /\ status.isTomorrow = TRUE
               /\ status.minutesUntilChange =
                      Some(WholeMinutes(now, MinOf(TomorrowStarts)))
        /\ Len(Tomorrow) = 0 =>
               /\ status.isTomorrow = FALSE
               /\ status.minutesUntilChange = Null

C5_Witness ==
    /\ phase = "done"
    /\ C5_Premise
    /\ Len(Today) > 0
    /\ Len(Tomorrow) > 0
    /\ status.isTomorrow
    /\ status.minutesUntilChange = Some(59)

C5_WitnessNone ==
    /\ phase = "done"
    /\ C5_Premise
    /\ Len(Today) > 0
    /\ tomorrowGroupText.present
    /\ Len(Tomorrow) = 0
    /\ status.minutesUntilChange = Null

\* C17 as stated: tomorrowFirstOutage is non-null whenever a tomorrow text
\* is supplied.
C17_LabelAlways ==
    phase = "done" /\ tomorrowGroupText.present => status.tomorrowFirstOutage # Null

\* C17 amended: tomorrowFirstOutage is non-null exactly when a tomorrow text
\* is supplied that holds an occurrence of "з HH:MM до"; it is then the
\* HH:MM of the first occurrence in the order of the text, whether or not
\* the occurrence yields a parsed interval and whether or not tomorrow
\* supplies the transition.
StartTokens ==
    IF tomorrowGroupText.present
    THEN {i \in DOMAIN tomorrowGroupText.items :
              tomorrowGroupText.items[i].kind \in {"range", "half"}}
    ELSE {}

C17_Label ==
    phase = "done" =>
        /\ StartTokens # {} =>
               status.tomorrowFirstOutage =
                   Some(tomorrowGroupText.items[MinOf(StartTokens)].s)
        /\ StartTokens = {} => status.tomorrowFirstOutage = Null

C17_Witness ==
    /\ phase = "done"
    /\ tomorrowGroupText.present
    /\ Len(Tomorrow) = 0
    /\ status.tomorrowFirstOutage = Some(Clock(0, 30))
    /\ ~status.hasTomorrowSchedule
    /\ ~status.isTomorrow

C17_WitnessTextOrder ==
    /\ phase = "done"
    /\ Len(Tomorrow) = 2
    /\ status.tomorrowFirstOutage = Some(Clock(23, 0))
    /\ Tomorrow[1].start = TomorrowBase
    /\ status.isTomorrow

\* C18: minutesUntilChange is the whole minutes from now to the transition
\* instant, truncated and never rounded up; a transition less than a minute
\* ahead gives 0, not none.  The transition instant is the end of the first
\* interval holding now (of tomorrow's first interval in the continuation
\* branch), else the next start of today, else tomorrow's first start.
Transition ==
    IF \E i \in 1..Len(Today) : FirstContaining(i)
    THEN LET i == CHOOSE j \in 1..Len(Today) : FirstContaining(j)
         IN  IF C3_BranchTaken(i) THEN Some(Tomorrow[1].end) ELSE Some(Today[i].end)
    ELSE IF C4_Premise THEN Some(MinOf(NotEndedStarts))
    ELSE IF Len(Tomorrow) > 0 THEN Some(MinOf(TomorrowStarts))
    ELSE Null

C18_Truncated ==
    phase = "done" =>
        /\ Transition = Null => status.minutesUntilChange = Null
        /\ Transition # Null =>
               /\ status.minutesUntilChange # Null
               /\ LET ahead == Transition[1] - now
                      minutes == status.minutesUntilChange[1]
                  IN  /\ ahead >= 0
                      /\ minutes * 60 <= ahead
                      /\ ahead < (minutes + 1) * 60

C18_Witness ==
    /\ phase = "done"
    /\ now % 60 # 0
    /\ Transition # Null
    /\ Transition[1] - now < 60
    /\ status.isOn
    /\ status.minutesUntilChange = Some(0)

C18_WitnessOff ==
    /\ phase = "done"
    /\ Transition # Null
    /\ Transition[1] - now = 30
    /\ ~status.isOn
    /\ status.minutesUntilChange = Some(0)

\* C20: the status is OFF with isTomorrow (the continuation branch) only
\* when the interval holding now ends exactly at 00:00 of the day after
\* now, not at 00:MM with MM > 0 of that day.
C20_OnlyAtMidnight ==
    phase = "done" /\ ~status.isOn /\ status.isTomorrow =>
        \E i \in 1..Len(Today) : FirstContaining(i) /\ Today[i].end = TomorrowBase

\* C24: isOn = false exactly when now lies in [start, end) of at least one
\* interval parsed from today's text, whatever the order and the overlaps of
\* the intervals in the text.
C24_OffIffInside ==
    phase = "done" =>
        (status.isOn = FALSE <=> \E i \in 1..Len(Today) : Contains(Today[i]))

\* now is inside the second listed interval of a text whose intervals
\* overlap, and inside an interval listed after a later one.
C24_Witness ==
    /\ phase = "done"
    /\ ~status.isOn
    /\ LET listed == PushedRanges(todayGroupText, TodayBase)
       IN  /\ Len(listed) = 2
           /\ listed[1].start > listed[2].start
           /\ Contains(listed[2])
           /\ ~Contains(listed[1])

C24_WitnessOverlap ==
    /\ phase = "done"
    /\ ~status.isOn
    /\ Len(Today) = 2
    /\ Today[2].start < Today[1].end
    /\ ~Contains(Today[1])
    /\ Contains(Today[2])

C24_WitnessOn ==
    /\ phase = "done"
    /\ status.isOn
    /\ Len(Today) = 2
    /\ Today[1].end <= now
    /\ now < Today[2].start

\* C27: minutesUntilChange is none or a non-negative integer.
C27_NonNegative ==
    phase = "done" =>
        \/ status.minutesUntilChange = Null
        \/ status.minutesUntilChange[1] >= 0

C27_Witness ==
    /\ phase = "done"
    /\ status.minutesUntilChange = Some(0)
    /\ now % 60 # 0

C27_WitnessAhead ==
    /\ phase = "done"
    /\ status.minutesUntilChange # Null
    /\ status.minutesUntilChange[1] > DAY \div 60
    /\ status.isTomorrow

\* C28: isTomorrow implies hasTomorrowSchedule and a minutesUntilChange that
\* is not none; minutesUntilChange is none only when isOn holds and
\* hasTomorrowSchedule does not.
C28_Flags ==
    phase = "done" =>
        /\ status.isTomorrow =>
               /\ status.hasTomorrowSchedule
               /\ status.minutesUntilChange # Null
        /\ status.minutesUntilChange = Null =>
               /\ status.isOn
               /\ ~status.hasTomorrowSchedule

C28_Witness ==
    /\ phase = "done"
    /\ status.minutesUntilChange = Null
    /\ tomorrowGroupText.present
    /\ Len(Today) > 0

C28_WitnessTomorrow ==
    /\ phase = "done"
    /\ status.isTomorrow
    /\ ~status.isOn

\* C25: when today's and tomorrow's intervals are each listed in start
\* order, non-empty, within their own day and do not overlap,
\* minutesUntilChange (when not none) is the whole
\* minutes from now to the first instant after now at which the state under
\* the union of today's and tomorrow's intervals differs from the reported
\* isOn; so when isOn = false no interval holds that instant.
SortedDisjoint(listed, parsed, base) ==
    /\ listed = parsed
    /\ \A i \in 1..Len(parsed) :
           /\ base <= parsed[i].start
           /\ parsed[i].start < parsed[i].end
           /\ parsed[i].end <= base + DAY
    /\ \A i \in 1..(Len(parsed) - 1) : parsed[i].end <= parsed[i + 1].start
UnionRanges ==
    {Today[i] : i \in 1..Len(Today)} \cup {Tomorrow[i] : i \in 1..Len(Tomorrow)}
UnionOff(x) == \E r \in UnionRanges : r.start <= x /\ x < r.end
\* The state can change only where an interval starts or ends.
FirstChange ==
    LET marks == {r.start : r \in UnionRanges} \cup {r.end : r \in UnionRanges}
        changes == {x \in marks : x > now /\ UnionOff(x) = status.isOn}
    IN  IF changes = {} THEN Null ELSE Some(MinOf(changes))

C25_FirstChange ==
    /\ phase = "done"
    /\ SortedDisjoint(PushedRanges(todayGroupText, TodayBase), Today, TodayBase)
    /\ tomorrowGroupText.present =>
           SortedDisjoint(PushedRanges(tomorrowGroupText, TomorrowBase),
                          Tomorrow, TomorrowBase)
    /\ status.minutesUntilChange # Null
    => /\ FirstChange # Null
       /\ status.minutesUntilChange = Some(WholeMinutes(now, FirstChange[1]))

\* --------------------------------------------------------------------------
\* Properties of the polls
\* --------------------------------------------------------------------------
LatestPoll == polls[1]
PreviousPoll == polls[2]
\* The latest poll has called sendMessage, or is about to.
LatestPollSends == outbox # {} \/ pcSend = "sending"

\* C9: a poll stores the content it computed as lastState (in memory and in
\* the storage) and sends only when that content differs from the lastState
\* it found; a poll that computes the same content as the poll before it
\* sends no message.
C9_NoRepeatedBroadcast ==
    Len(polls) > 0 =>
        /\ lastState = Some(LatestPoll.content)
        /\ stored.lastState = Some(LatestPoll.content)
        /\ Len(polls) = 2 /\ PreviousPoll.content = LatestPoll.content
               => ~LatestPollSends

C9_Witness ==
    /\ Len(polls) = 2
    /\ PreviousPoll.content = LatestPoll.content
    /\ LatestPoll.built
    /\ PreviousPoll.info # LatestPoll.info
    /\ Len(subscribers) = MaxChats
    /\ pcSend = "idle"
    /\ outbox = {}

C9_WitnessSends ==
    /\ Len(polls) = 2
    /\ PreviousPoll.content # LatestPoll.content
    /\ outbox # {}

\* C10: two polls that extract the same today text and the same tomorrow
\* text for the same group build the same schedule content, whatever the
\* "Інформація станом на" paragraphs of the two documents.
SameSchedule(a, b) ==
    /\ a.built /\ b.built
    /\ a.today = b.today
    /\ a.tomorrow = b.tomorrow
    /\ a.group = b.group

C10_FingerprintStable ==
    Len(polls) = 2 /\ SameSchedule(LatestPoll, PreviousPoll)
        => LatestPoll.content = PreviousPoll.content

C10_Witness ==
    /\ Len(polls) = 2
    /\ SameSchedule(LatestPoll, PreviousPoll)
    /\ LatestPoll.tomorrow.present
    /\ LatestPoll.info # PreviousPoll.info
    /\ LatestPoll.content = PreviousPoll.content

\* --------------------------------------------------------------------------
\* Properties of buildScheduleContent
\* --------------------------------------------------------------------------
\* Two texts that agree in everything but the clock times of their
\* "з HH:MM до HH:MM" items.
SameButTimes(a, b) ==
    /\ a.present = b.present
    /\ a.present =>
           /\ a.marker = b.marker
           /\ a.nemae = b.nemae
           /\ Len(a.items) = Len(b.items)
           /\ \A i \in DOMAIN a.items :
                  /\ a.items[i].kind = b.items[i].kind
                  /\ a.items[i].kind # "range" => a.items[i] = b.items[i]

\* The text carries a list introduced by "немає з".
HasList(text) == text.nemae /\ text.items # <<>>

\* C11: two calls whose texts differ in the start or end clock time of at
\* least one outage of today's or tomorrow's text, everything else and the
\* group being equal, return different contents.
C11_TimeSensitive ==
    /\ phase = "done"
    /\ SameButTimes(todayGroupText, otherToday)
    /\ SameButTimes(tomorrowGroupText, otherTomorrow)
    /\ todayGroupText # otherToday \/ tomorrowGroupText # otherTomorrow
    => content # otherContent

\* C12 as stated: for the same today text and group, the content with a
\* tomorrow text present differs from the content with tomorrow absent.
C12_Premise ==
    /\ phase = "done"
    /\ otherToday = todayGroupText
    /\ tomorrowGroupText.present
    /\ ~otherTomorrow.present

C12_TomorrowPresenceAlways == C12_Premise => content # otherContent

\* C12 amended: for the same today text and group, the content with a
\* tomorrow text present differs from the content with tomorrow absent
\* exactly when the tomorrow text carries a list introduced by "немає з" or
\* contains the phrase "Електроенергія є"; a tomorrow text with neither
\* gives the content of an absent tomorrow.
C12_TomorrowPresence ==
    C12_Premise =>
        (content # otherContent
            <=> (HasList(tomorrowGroupText) \/ tomorrowGroupText.marker))

C12_Witness ==
    /\ C12_Premise
    /\ ~HasList(tomorrowGroupText)
    /\ tomorrowGroupText.marker
    /\ content # otherContent

C12_WitnessSame ==
    /\ C12_Premise
    /\ tomorrowGroupText.items # <<>>
    /\ content = otherContent

\* C13 as stated: two today texts, or two tomorrow texts, that differ only
\* in containing the phrase "Електроенергія є" give different contents.
OnlyMarkerDiffers(a, b) ==
    /\ a.present /\ b.present
    /\ a.marker # b.marker
    /\ [a EXCEPT !.marker = b.marker] = b

C13_WitnessTomorrow ==
    /\ phase = "done"
    /\ todayGroupText = otherToday
    /\ OnlyMarkerDiffers(tomorrowGroupText, otherTomorrow)
    /\ ~HasList(tomorrowGroupText)
    /\ content # otherContent

\* C14: a today text with no "HH:MM до HH:MM" pattern and without the phrase
\* "Електроенергія є" is rendered as the line "дані недоступні": the content
\* starts with that line, followed by no outage line and no all-day line.
NoTimePattern(text) == \A i \in DOMAIN text.items : text.items[i].kind # "range"

C14_Unavailable ==
    phase = "done" /\ NoTimePattern(todayGroupText) /\ ~todayGroupText.marker =>
        /\ content[1][1] = [line |-> "unavailable", group |-> GROUP]
        /\ content[1][2].line \notin {"time", "allDay"}

\* --------------------------------------------------------------------------
\* Properties of extractGroupText, extractInfoText and the two messages
\* --------------------------------------------------------------------------
GroupHits == {i \in 1..Len(todayDoc) :
                 todayDoc[i].p = "group" /\ todayDoc[i].group = GROUP}
InfoHits == {i \in 1..Len(todayDoc) : todayDoc[i].p = "info"}

\* C15 as stated: the text extractGroupText returns is that of the first
\* paragraph of the document that starts with "Група <group>.", and the
\* text extractInfoText returns is that of the first paragraph that starts
\* with "Інформація станом на".
C15_FirstParagraph ==
    phase = "schedule" /\ todayDoc # <<>> =>
        /\ GroupHits # {} => todayGroupText = todayDoc[MinOf(GroupHits)].text
        /\ InfoHits # {} => infoFound = Some(todayDoc[MinOf(InfoHits)].stamp)

\* C15 amended: the text extractGroupText returns is that of the last
\* paragraph of the document that starts with "Група <group>." (none when
\* there is no such paragraph), and the text extractInfoText returns is that
\* of the last paragraph that starts with "Інформація станом на".
C15_LastParagraph ==
    phase = "schedule" /\ todayDoc # <<>> =>
        /\ GroupHits # {} => todayGroupText = todayDoc[MaxOf(GroupHits)].text
        /\ GroupHits = {} => todayGroupText = NoText
        /\ InfoHits # {} => infoFound = Some(todayDoc[MaxOf(InfoHits)].stamp)
        /\ InfoHits = {} => infoFound = Null

C15_Witness ==
    /\ phase = "schedule"
    /\ Cardinality(GroupHits) = 2
    /\ todayDoc[1].text # todayDoc[2].text
    /\ todayGroupText = todayDoc[2].text

C15_WitnessInfo ==
    /\ phase = "schedule"
    /\ Cardinality(InfoHits) = 2
    /\ todayDoc[1].stamp # todayDoc[2].stamp
    /\ infoFound = Some(todayDoc[2].stamp)

\* C16: when today's document is empty or has no paragraph for the current
\* group, extractGroupText returns none, buildScheduleMessage returns the
\* "не знайдено" message without calling buildScheduleContent, and
\* buildStatusMessage returns its "не знайдено" message without calling
\* getElectricityStatus.
MissingToday == todayDoc = <<>> \/ GroupHits = {}

C16_MissingData ==
    MissingToday =>
        /\ phase = "schedule" =>
               /\ todayGroupText = NoText
               /\ reply = Some([fullMessage |-> [header |-> <<>>,
                                                 body |-> NotFoundMessage(GROUP)],
                                scheduleContent |-> NotFoundMessage(GROUP)])
               /\ content = Null
               /\ status = Null
        /\ phase = "status" =>
               /\ todayGroupText = NoText
               /\ reply = Some(StatusNotFoundMessage)
               /\ content = Null
               /\ status = Null

C16_Witness ==
    /\ phase = "status"
    /\ MissingToday
    /\ \E i \in 1..Len(todayDoc) : todayDoc[i].p = "group"
    /\ tomorrowDoc # <<>>
    /\ reply = Some(StatusNotFoundMessage)

C16_WitnessSchedule ==
    /\ phase = "schedule"
    /\ MissingToday
    /\ todayDoc # <<>>
    /\ extractGroupText(tomorrowDoc, GROUP).present
    /\ reply # Null

\* --------------------------------------------------------------------------
\* Properties of the group taken from the power API
\* --------------------------------------------------------------------------
\* C19: the group is null for a null, undefined, empty or single-character
\* value, the value as it is when it contains ".", and "<first>.<second>"
\* for any other value of two or more characters, string or number; this
\* holds for what parseGroupFromApi returns and for what fetchGroupFromApi
\* returns.
GroupInFormat(response) ==
    IF response = Null THEN Null
    ELSE LET written == response[1].chars
         IN  IF Len(written) < 2 /\ written # <<".">> THEN Null
             ELSE IF \E i \in DOMAIN written : written[i] = "." THEN Some(written)
             ELSE Some(<<written[1], ".", written[2]>>)

C19_GroupFormat ==
    phase = "done" =>
        /\ parsedGroup = GroupInFormat(chergGpv)
        /\ fetched = GroupInFormat(chergGpv)

\* --------------------------------------------------------------------------
\* Properties of the broadcasts, the subscriptions and the group check
\* --------------------------------------------------------------------------
\* What a pass of the loop of checkAndSend does to the Set and the storage.
C22_Passes ==
    /\ SendRejected =>
           LET chatId == subscribers[cursor + 1]
           IN  /\ \A i \in 1..Len(subscribers') : subscribers'[i] # chatId
               /\ subscribers' = Without(chatId)
               /\ stored'.subscribers = subscribers'
    /\ SendDelivered => UNCHANGED <<subscribers, stored>>

C22_WitnessTwice ==
    /\ pcSend = "sending"
    /\ cursor >= Len(subscribers)
    /\ \E chatId \in Members : chatId \in joined /\ attempts[chatId] = 2

\* C23 as stated: a chat is in the Set exactly when its latest request was a
\* subscribe, or it was loaded as subscribed and never asked to unsubscribe;
\* the persisted list equals the Set; a repeated subscribe and an unsubscribe
\* of a chat that is not in the Set leave the Set and the storage as they are.
C23_Idle ==
    /\ \A chatId \in Chats :
           handleSubscribe(chatId) /\ Has(chatId)
               => UNCHANGED <<subscribers, stored>>
    /\ \A chatId \in Chats :
           handleUnsubscribe(chatId) /\ ~Has(chatId)
               => UNCHANGED <<subscribers, stored>>

C23_WitnessLoaded ==
    /\ phase = "bot"
    /\ \E chatId \in Chats : Has(chatId) /\ lastReq[chatId] = "loaded"
    /\ \E chatId \in Chats : ~Has(chatId) /\ lastReq[chatId] = "unsubscribe"
    /\ polls # <<>>

\* What checkAndUpdateGroup does with the group it fetched.
C21_Fetch ==
    \A response \in ApiResponses :
        checkAndUpdateGroup(response) =>
            LET newGroup == fetchGroupFromApi(response)
            IN  IF newGroup # Null /\ newGroup[1] # GROUP
                THEN /\ GROUP' = newGroup[1]
                     /\ stored'.group = newGroup
                     /\ UNCHANGED <<lastState, subscribers>>
                ELSE UNCHANGED <<GROUP, stored, lastState, subscribers, note,
                                 pcGroup>>

C21_WitnessFailed ==
    /\ pcGroup = "idle"
    /\ note # Null
    /\ note[1].done
    /\ note[1].built = Null
    /\ Members # {}
    /\ GROUP = note[1].new
    /\ stored.group = Some(GROUP)

\* C26: when the notification loop of checkAndUpdateGroup has sent the new
\* group's schedule, the next poll of checkAndSend that computes the same
\* schedule content (a lastState was stored by a poll before) sends nothing
\* to the chats that were sent the notification.
C26_NoSecondBroadcast ==
    /\ note # Null
    /\ note[1].done
    /\ note[1].polled
    /\ note[1].built # Null
    /\ Len(polls) = 2
    /\ LatestPoll.content = note[1].built[1].content
    => outbox \cap note[1].to = {}

====
